---- MODULE Spec2Model ----
(***************************************************************************)
(* Model of the salon booking backend: the booking routes                  *)
(* (src/routes/bookings.js), the service routes (same file, third router), *)
(* and the Booking / Service schemas (src/models).                         *)
(*                                                                         *)
(* The document store keeps its documents in insertion order; a document's *)
(* _id is its position.  Strings that the code inspects character by       *)
(* character (appointmentTime, clientName) are sequences of one-character  *)
(* strings.  An instant (a JS Date) is an integer number of ticks since    *)
(* the epoch, TicksPerDay ticks to the day; the server clock is UTC.       *)
(* createdAt / updatedAt are not modelled.                                 *)
(***************************************************************************)
EXTENDS Integers, Sequences, FiniteSets, TLC

VARIABLES bookings,   \* the Booking collection, in insertion order
          services,   \* the Service collection, in insertion order
          now,        \* the server clock (new Date())
          res,        \* the last response sent
          inflight,   \* per overlapping request: where its handler stands
          mail        \* the mail transport: whether it delivers, and the
                      \* bookings whose confirmation it has delivered

vars == <<bookings, services, now, res, inflight, mail>>

\* ------------------------------------------------------------------ bounds
MaxBookings == 2
MaxTicks == 2
TicksPerDay == 2
NumProcs == 2
MaxServices == 2

Procs == 1..NumProcs

\* ------------------------------------------------------------ characters
Digits == <<"0", "1", "2", "3", "4", "5", "6", "7", "8", "9">>

IsDigit(c) == \E i \in 1..10 : Digits[i] = c

IsSpace(c) == c = " "

RECURSIVE TrimLeft(_)
TrimLeft(s) ==
  IF s # <<>> /\ IsSpace(Head(s)) THEN TrimLeft(Tail(s)) ELSE s

RECURSIVE TrimRight(_)
TrimRight(s) ==
  IF s # <<>> /\ IsSpace(s[Len(s)]) THEN TrimRight(SubSeq(s, 1, Len(s) - 1)) ELSE s

\* express-validator's .trim() sanitizer
Trim(s) == TrimRight(TrimLeft(s))

\* n.toString().padStart(2, '0') for 0 <= n <= 99
Pad2(n) ==
  IF n < 10 THEN <<"0", Digits[n + 1]>>
  ELSE <<Digits[(n \div 10) + 1], Digits[(n % 10) + 1]>>

\* `${hour...}:${minute...}`
FormatTime(hour, minute) == Pad2(hour) \o <<":">> \o Pad2(minute)

\* /^([01]?[0-9]|2[0-3]):[0-5][0-9]$/
MatchesTime(s) ==
  /\ Len(s) \in {4, 5}
  /\ LET h == SubSeq(s, 1, Len(s) - 3)
         t == SubSeq(s, Len(s) - 2, Len(s))
     IN /\ \/ Len(h) = 1 /\ IsDigit(h[1])
           \/ Len(h) = 2 /\ h[1] \in {"0", "1"} /\ IsDigit(h[2])
           \/ Len(h) = 2 /\ h[1] = "2" /\ h[2] \in {"0", "1", "2", "3"}
        /\ t[1] = ":"
        /\ t[2] \in {"0", "1", "2", "3", "4", "5"}
        /\ IsDigit(t[3])

\* ------------------------------------------------------------------ dates
\* A date string of a request: a well-formed ISO-8601 string names a calendar
\* day and, when it has a time part, a tick within the day.
IsoDate(day, tick) == [iso |-> TRUE, day |-> day, tick |-> tick]
NotADate == [iso |-> FALSE, day |-> 0, tick |-> 0]

\* new Date(value)
ParseDate(d) == d.day * TicksPerDay + d.tick

\* the calendar day an instant falls on
CalDay(instant) == instant \div TicksPerDay

\* Date.prototype.getDay(): 0 is Sunday; day 0 of the epoch is a Thursday
DayOfWeek(instant) == (CalDay(instant) + 4) % 7

\* ------------------------------------------------------------ the schemas
ValidStatuses == {"pending", "confirmed", "completed", "cancelled"}
ActiveStatuses == {"pending", "confirmed"}
DefaultNotes == "No special requests"

\* an absent value (null / undefined)
Null == [null |-> TRUE]

\* a deleted document's place in its collection
Deleted == [deleted |-> TRUE]

\* a lookup that finds only the services that are available
FindServiceAvailableOnly(svcs, id) ==
  IF id \in 1..Len(svcs) /\ svcs[id] # Deleted /\ svcs[id].available
  THEN svcs[id] ELSE Null

\* Service.findById
FindService(svcs, id) ==
  IF id \in 1..Len(svcs) /\ svcs[id] # Deleted THEN svcs[id] ELSE Null

\* Booking.findById
FindBooking(bks, id) ==
  IF id \in 1..Len(bks) THEN bks[id] ELSE Null

\* a conflict check that takes a booking of any status to hold a slot
FindConflictAnyStatus(bks, date, time) ==
  \E i \in 1..Len(bks) :
    /\ bks[i].appointmentDate = date
    /\ bks[i].appointmentTime = time

\* a conflict check that takes only confirmed bookings to hold a slot
FindConflictConfirmedOnly(bks, date, time) ==
  \E i \in 1..Len(bks) :
    /\ bks[i].appointmentDate = date
    /\ bks[i].appointmentTime = time
    /\ bks[i].status = "confirmed"

\* a conflict check that takes only pending bookings to hold a slot
FindConflictPendingOnly(bks, date, time) ==
  \E i \in 1..Len(bks) :
    /\ bks[i].appointmentDate = date
    /\ bks[i].appointmentTime = time
    /\ bks[i].status = "pending"

\* Booking.findOne({appointmentDate, appointmentTime, status: {$in: [...]}}):
\* TRUE when some document matches
FindConflict(bks, date, time) ==
  \E i \in 1..Len(bks) :
    /\ bks[i].appointmentDate = date
    /\ bks[i].appointmentTime = time
    /\ bks[i].status \in {"pending", "confirmed"}

\* the appointmentDate validator of the Booking schema
DateInFuture(date, t) == date > t

\* the validation Document.save() runs: every path of the document, the
\* loaded ones included, against its schema validators
SchemaValid(doc, t) ==
  /\ Len(doc.clientName) <= 100
  /\ doc.servicePrice >= 0
  /\ DateInFuture(doc.appointmentDate, t)
  /\ doc.status \in ValidStatuses
  /\ doc.totalAmount >= 0
  /\ doc.paymentStatus \in {"pending", "paid", "refunded"}

\* a pre-save hook that recomputes the amount from the live service
PreSaveLivePrice(doc) ==
  IF FindService(services, doc.service) # Null
  THEN [doc EXCEPT !.totalAmount = FindService(services, doc.service).price]
  ELSE [doc EXCEPT !.totalAmount = doc.servicePrice]

\* bookingSchema.pre('save')
PreSave(doc) == [doc EXCEPT !.totalAmount = doc.servicePrice]

\* ------------------------------------------------------------- responses
Ok(code, doc) == [code |-> code, error |-> "", booking |-> doc]
Fail(code, msg) == [code |-> code, error |-> msg, booking |-> Null]
NoResponse == [code |-> 0, error |-> "", booking |-> Null]

\* ---------------------------------------------------------------- requests
T0900 == <<"0", "9", ":", "0", "0">>
T900 == <<"9", ":", "0", "0">>
T2500 == <<"2", "5", ":", "0", "0">>
T1000 == <<"1", "0", ":", "0", "0">>
T960 == <<"9", ":", "6", "0">>

Monday == IsoDate(4, 0)
Saturday == IsoDate(9, 0)
NextSunday == IsoDate(10, 0)
MondayNoon == IsoDate(4, 1)

GoodName == <<"A", "l">>
ShortName == <<"A">>

Haircut == [name |-> "Haircut", description |-> "A classic cut", price |-> 50,
            duration |-> "30 min", category |-> "Hair", icon |-> "scissors"]
Facial == [name |-> "Facial", description |-> "A deep cleanse", price |-> 80,
           duration |-> "60 min", category |-> "Skincare", icon |-> "spa"]

ServiceBodies == {Haircut, Facial}

ServiceIdInputs == {1, 2}
StatusInputs == ValidStatuses \cup {"archived"}
BookingIdInputs == 1..(MaxBookings + 1)

\* a POST /api/bookings body; `status` is a field the handler never reads
Body(name, svc, date, time, st) ==
  [clientName |-> name, clientEmail |-> "al@example.com",
   clientPhone |-> "5551234567", service |-> svc,
   appointmentDate |-> date, appointmentTime |-> time,
   notes |-> Null, status |-> st]

\* well-formed requests for three slots (a bare date with either spelling of
\* nine o'clock, and the same day with a time of day in the date), a request
\* for a service that does not exist, and one request for each way
\* validation can fail
Bodies ==
  { Body(GoodName, 1, Monday, T0900, ""),
    Body(GoodName, 1, Monday, T900, ""),
    Body(GoodName, 1, MondayNoon, T0900, ""),
    Body(GoodName, 2, Monday, T0900, ""),
    Body(GoodName, 1, Monday, T2500, ""),
    Body(GoodName, 1, Monday, T960, ""),
    Body(GoodName, 1, NotADate, T0900, ""),
    Body(ShortName, 1, Monday, T0900, ""),
    Body(GoodName, 1, Monday, T0900, "confirmed") }

\* overlapping requests: two spellings of one time on one date, a request
\* validation rejects and a request for a service that does not exist
RaceBodies ==
  { Body(GoodName, 1, Monday, T0900, ""),
    Body(GoodName, 1, Monday, T900, ""),
    Body(GoodName, 1, Monday, T2500, ""),
    Body(GoodName, 2, Monday, T0900, "") }

\* requests for three times of one Monday (nine o'clock in both spellings and
\* ten o'clock), for a Sunday, and for a service that does not exist
QueryBodies ==
  { Body(GoodName, 1, Monday, T0900, ""),
    Body(GoodName, 1, Monday, T900, ""),
    Body(GoodName, 1, Monday, T1000, ""),
    Body(GoodName, 1, NextSunday, T0900, ""),
    Body(GoodName, 2, Monday, T0900, "") }

\* req.query.serviceId when the query string has none
NoServiceId == 0

\* GET /available-slots/:date?serviceId=: a Monday, a Saturday and a Sunday
\* for a service that exists, a Sunday for one that does not, and a request
\* without a service id
SlotQueries ==
  { [date |-> Monday, serviceId |-> 1],
    [date |-> Saturday, serviceId |-> 1],
    [date |-> NextSunday, serviceId |-> 1],
    [date |-> NextSunday, serviceId |-> 2],
    [date |-> Monday, serviceId |-> NoServiceId] }

\* const { page = 1, limit = 10, status, date } = req.query
DefaultPage == 1
DefaultLimit == 10
ListQuery(status, date, page, limit) ==
  [status |-> status, date |-> date, page |-> page, limit |-> limit]

\* GET /: no filter, each filter alone, both filters, and the second page of
\* pages of one
ListQueries ==
  { ListQuery("", Null, DefaultPage, DefaultLimit),
    ListQuery("pending", Null, DefaultPage, DefaultLimit),
    ListQuery("", Monday, DefaultPage, DefaultLimit),
    ListQuery("cancelled", NextSunday, DefaultPage, DefaultLimit),
    ListQuery("", Null, 2, 1) }

\* requests for one Monday, by its bare date and by a date with a time of
\* day, and for the Saturday of that week
DayBodies ==
  { Body(GoodName, 1, Monday, T0900, ""),
    Body(GoodName, 1, MondayNoon, T0900, ""),
    Body(GoodName, 1, Monday, T1000, ""),
    Body(GoodName, 1, Saturday, T0900, "") }

\* the availability and the list of the Monday and of the Saturday
DaySlotQueries ==
  { [date |-> Monday, serviceId |-> 1],
    [date |-> Saturday, serviceId |-> 1] }

DayListQueries ==
  { ListQuery("", Monday, DefaultPage, DefaultLimit),
    ListQuery("", Saturday, DefaultPage, DefaultLimit) }

\* the cancelled bookings in pages of one: the first two pages
PageListQueries ==
  { ListQuery("cancelled", Null, 1, 1),
    ListQuery("cancelled", Null, 2, 1) }

\* requests that give the date as a bare calendar date and the time with a
\* two-digit hour: two times of one Monday, the Saturday and the Sunday
StrictBodies ==
  { Body(GoodName, 1, Monday, T0900, ""),
    Body(GoodName, 1, Monday, T1000, ""),
    Body(GoodName, 1, Saturday, T0900, ""),
    Body(GoodName, 1, NextSunday, T0900, "") }

\* requests for one slot, one of which tries to set the status
CatalogBodies ==
  { Body(GoodName, s, Monday, T0900, st) :
      s \in ServiceIdInputs, st \in {"", "confirmed"} }

\* --------------------------------------------------- POST /api/bookings
\* validateBooking: the express-validator chain (clientEmail and clientPhone
\* of every modelled body pass)
NameValid(body) ==
  Len(Trim(body.clientName)) >= 2 /\ Len(Trim(body.clientName)) <= 100

ServiceIdValid(body) == body.service \in Nat

\* a date check that lets the current instant through
DateValidNotPast(body, t) ==
  body.appointmentDate.iso /\ ParseDate(body.appointmentDate) >= t

\* .isISO8601().custom(value => new Date(value) > new Date())
DateValid(body, t) ==
  body.appointmentDate.iso /\ ParseDate(body.appointmentDate) > t

TimeValid(body) == MatchesTime(Trim(body.appointmentTime))

ValidateBooking(body, t) ==
  /\ NameValid(body)
  /\ ServiceIdValid(body)
  /\ DateValid(body, t)
  /\ TimeValid(body)

\* errors.array(): the path and the value of every field whose chain failed
ValidationDetails(body, t) ==
  { [path |-> f, value |-> body[f]] :
      f \in { g \in {"clientName", "service", "appointmentDate",
                     "appointmentTime"} :
               CASE g = "clientName" -> ~NameValid(body)
                 [] g = "service" -> ~ServiceIdValid(body)
                 [] g = "appointmentDate" -> ~DateValid(body, t)
                 [] g = "appointmentTime" -> ~TimeValid(body) } }

\* res.status(400).json({ error: 'Validation failed', details })
Invalid(details) ==
  [code |-> 400, error |-> "Validation failed", booking |-> Null,
   details |-> details]

\* a constructor call that spreads the request body, status included
NewBookingCallerStatus(id, body, service) ==
  [_id |-> id,
   clientName |-> Trim(body.clientName),
   clientEmail |-> body.clientEmail,
   clientPhone |-> body.clientPhone,
   service |-> body.service,
   serviceName |-> service.name,
   servicePrice |-> service.price,
   serviceDuration |-> service.duration,
   serviceCategory |-> service.category,
   appointmentDate |-> ParseDate(body.appointmentDate),
   appointmentTime |-> Trim(body.appointmentTime),
   notes |-> IF body.notes = Null THEN DefaultNotes ELSE body.notes,
   status |-> IF body.status = "" THEN "pending" ELSE body.status,
   totalAmount |-> service.price,
   paymentStatus |-> "pending"]

\* new Booking({...}): the fields the handler passes, the rest by default
NewBooking(id, body, service) ==
  [_id |-> id,
   clientName |-> Trim(body.clientName),
   clientEmail |-> body.clientEmail,
   clientPhone |-> body.clientPhone,
   service |-> body.service,
   serviceName |-> service.name,
   servicePrice |-> service.price,
   serviceDuration |-> service.duration,
   serviceCategory |-> service.category,
   appointmentDate |-> ParseDate(body.appointmentDate),
   appointmentTime |-> Trim(body.appointmentTime),
   notes |-> IF body.notes = Null THEN DefaultNotes ELSE body.notes,
   status |-> "pending",
   totalAmount |-> service.price,
   paymentStatus |-> "pending"]

\* a save under a unique index on (appointmentDate, appointmentTime)
SaveNewUniqueSlot(bks, doc, t) ==
  IF /\ SchemaValid(doc, t)
     /\ ~\E i \in 1..Len(bks) :
           /\ bks[i].appointmentDate = doc.appointmentDate
           /\ bks[i].appointmentTime = doc.appointmentTime
  THEN [bookings |-> Append(bks, PreSave(doc)), res |-> Ok(201, PreSave(doc))]
  ELSE [bookings |-> bks, res |-> Fail(500, "Failed to create booking")]

\* booking.save() of a new document and the response that follows, at clock t
SaveNew(bks, doc, t) ==
  IF SchemaValid(doc, t)
  THEN [bookings |-> Append(bks, PreSave(doc)), res |-> Ok(201, PreSave(doc))]
  ELSE [bookings |-> bks, res |-> Fail(500, "Failed to create booking")]

\* the whole handler run without interruption at clock t
CreateOutcome(bks, svcs, t, body) ==
  IF ~ValidateBooking(body, t)
  THEN [bookings |-> bks, res |-> Invalid(ValidationDetails(body, t))]
  ELSE LET service == FindService(svcs, body.service) IN
    IF service = Null
    THEN [bookings |-> bks, res |-> Fail(404, "Service not found")]
    ELSE IF FindConflict(bks, ParseDate(body.appointmentDate),
                         Trim(body.appointmentTime))
    THEN [bookings |-> bks, res |-> Fail(409, "This time slot is already booked")]
    ELSE SaveNew(bks, NewBooking(Len(bks) + 1, body, service), t)

\* a handler that lets a failed send reach its outer catch
ResponseAfterNotifyPropagates(r, delivered) ==
  IF delivered THEN r ELSE Fail(500, "Failed to create booking")

\* try { await sendBookingConfirmation(booking) } catch { console.error }:
\* the response after the send, delivered or not
ResponseAfterNotify(r, delivered) == r

\* sendBookingConfirmation after a save that succeeded: the transport
\* delivers the mail or throws
MailAfter(m, r) ==
  IF r.code = 201 /\ m.up
  THEN [m EXCEPT !.sent = @ \cup {r.booking._id}]
  ELSE m

\* the response of a handler that got as far as the save
AfterSave(r, m) ==
  IF r.code = 201 THEN ResponseAfterNotify(r, m.up) ELSE r

Create(body) ==
  /\ LET out == CreateOutcome(bookings, services, now, body) IN
       /\ Len(out.bookings) <= MaxBookings
       /\ bookings' = out.bookings
       /\ res' = AfterSave(out.res, mail)
       /\ mail' = MailAfter(mail, out.res)
  /\ UNCHANGED <<services, now, inflight>>

\* ------------------------------------------- PATCH /api/bookings/:id/status
\* an update that marks a booking paid as it completes it
FindByIdAndUpdateStatusAndPayment(bks, id, status) ==
  IF id \in 1..Len(bks)
  THEN [bks EXCEPT ![id].status = status,
                   ![id].paymentStatus =
                     IF status = "completed" THEN "paid" ELSE @]
  ELSE bks

\* Booking.findByIdAndUpdate(id, {status}, {new: true, runValidators: true})
FindByIdAndUpdateStatus(bks, id, status) ==
  IF id \in 1..Len(bks) THEN [bks EXCEPT ![id].status = status] ELSE bks

\* a status update that refuses to leave cancelled or completed
UpdateStatusOutcomeLifecycle(bks, id, status) ==
  IF status \notin {"pending", "confirmed", "completed", "cancelled"}
  THEN [bookings |-> bks, res |-> Fail(400, "Invalid status")]
  ELSE IF FindBooking(bks, id) = Null
  THEN [bookings |-> bks, res |-> Fail(404, "Booking not found")]
  ELSE IF bks[id].status \in {"cancelled", "completed"}
  THEN [bookings |-> bks, res |-> Fail(400, "Invalid transition")]
  ELSE [bookings |-> [bks EXCEPT ![id].status = status],
        res |-> Ok(200, [bks[id] EXCEPT !.status = status])]

\* a status update that leaves the check of the value to the schema's enum
UpdateStatusOutcomeSchemaOnly(bks, id, status) ==
  IF status \notin ValidStatuses
  THEN [bookings |-> bks, res |-> Fail(500, "Failed to update booking status")]
  ELSE LET after == FindByIdAndUpdateStatus(bks, id, status) IN
    IF FindBooking(after, id) = Null
    THEN [bookings |-> bks, res |-> Fail(404, "Booking not found")]
    ELSE [bookings |-> after, res |-> Ok(200, after[id])]

\* validStatuses.includes(status), then findByIdAndUpdate, then !booking
UpdateStatusOutcome(bks, id, status) ==
  IF status \notin {"pending", "confirmed", "completed", "cancelled"}
  THEN [bookings |-> bks, res |-> Fail(400, "Invalid status")]
  ELSE LET after == FindByIdAndUpdateStatus(bks, id, status) IN
    IF FindBooking(after, id) = Null
    THEN [bookings |-> bks, res |-> Fail(404, "Booking not found")]
    ELSE [bookings |-> after, res |-> Ok(200, after[id])]

UpdateStatus(id, status) ==
  /\ LET out == UpdateStatusOutcome(bookings, id, status) IN
       /\ bookings' = out.bookings
       /\ res' = out.res
  /\ UNCHANGED <<services, now, inflight, mail>>

\* ------------------------------------------- PATCH /api/bookings/:id/cancel
\* booking.save() of a loaded document whose status was set, at clock t:
\* the document is validated as loaded, and the paths that were modified,
\* the status and what the pre-save hook changed, are written to the stored
\* document
SaveLoaded(bks, doc, t) ==
  IF SchemaValid(doc, t)
  THEN [bookings |-> [bks EXCEPT ![doc._id] =
                        [@ EXCEPT !.status = doc.status,
                                  !.totalAmount =
                                    IF PreSave(doc).totalAmount # doc.totalAmount
                                    THEN PreSave(doc).totalAmount ELSE @]],
        res |-> Ok(200, PreSave(doc))]
  ELSE [bookings |-> bks, res |-> Fail(500, "Failed to cancel booking")]

\* a cancel without the guard on completed bookings
CancelOutcomeNoCompletedGuard(bks, id, t) ==
  LET booking == FindBooking(bks, id) IN
    IF booking = Null
    THEN [bookings |-> bks, res |-> Fail(404, "Booking not found")]
    ELSE IF booking.status = "cancelled"
    THEN [bookings |-> bks, res |-> Fail(400, "Booking is already cancelled")]
    ELSE SaveLoaded(bks, [booking EXCEPT !.status = "cancelled"], t)

CancelOutcome(bks, id, t) ==
  LET booking == FindBooking(bks, id) IN
    IF booking = Null
    THEN [bookings |-> bks, res |-> Fail(404, "Booking not found")]
    ELSE IF booking.status = "cancelled"
    THEN [bookings |-> bks, res |-> Fail(400, "Booking is already cancelled")]
    ELSE IF booking.status = "completed"
    THEN [bookings |-> bks, res |-> Fail(400, "Cannot cancel completed booking")]
    ELSE SaveLoaded(bks, [booking EXCEPT !.status = "cancelled"], t)

Cancel(id) ==
  /\ LET out == CancelOutcome(bookings, id, now) IN
       /\ bookings' = out.bookings
       /\ res' = out.res
  /\ UNCHANGED <<services, now, inflight, mail>>

\* ------------------------------ GET /api/bookings/available-slots/:date
\* a grid whose loop runs while hour <= endHour
SlotGridThroughEndHour ==
  [k \in 1..20 |-> FormatTime(9 + ((k - 1) \div 2), 30 * ((k - 1) % 2))]

\* the candidate times, hour by hour from startHour to endHour, two to the hour
SlotGrid == [k \in 1..18 |-> FormatTime(9 + ((k - 1) \div 2), 30 * ((k - 1) % 2))]

\* bookedSlots.map(slot => slot.appointmentTime)
BookedTimes(bks, instant) ==
  { bks[i].appointmentTime : i \in
      { j \in 1..Len(bks) : /\ bks[j].appointmentDate = instant
                            /\ bks[j].status \in {"pending", "confirmed"} } }

\* a handler without the check of the weekday
AvailableSlotsEveryDay(bks, instant) ==
  LET booked == BookedTimes(bks, instant) IN
  SelectSeq(SlotGrid, LAMBDA time : time \notin booked)

\* the availableSlots of the response for a date whose service resolves
AvailableSlots(bks, instant) ==
  IF DayOfWeek(instant) = 0 THEN <<>>
  ELSE LET booked == BookedTimes(bks, instant) IN
       SelectSeq(SlotGrid, LAMBDA time : time \notin booked)

\* res.json({ availableSlots }) or res.status(code).json({ error })
SlotsAnswer(code, msg, slots) ==
  [code |-> code, error |-> msg, slots |-> slots]

\* a handler that looks at the weekday before it resolves the service
AvailabilityOutcomeClosedDayFirst(bks, svcs, date, serviceId) ==
  IF serviceId = NoServiceId
  THEN SlotsAnswer(400, "Service ID is required", <<>>)
  ELSE IF DayOfWeek(ParseDate(date)) = 0
  THEN SlotsAnswer(200, "", <<>>)
  ELSE IF FindService(svcs, serviceId) = Null
  THEN SlotsAnswer(404, "Service not found", <<>>)
  ELSE SlotsAnswer(200, "", AvailableSlots(bks, ParseDate(date)))

\* !serviceId, then Service.findById, then the weekday and the grid
AvailabilityOutcome(bks, svcs, date, serviceId) ==
  IF serviceId = NoServiceId
  THEN SlotsAnswer(400, "Service ID is required", <<>>)
  ELSE IF FindService(svcs, serviceId) = Null
  THEN SlotsAnswer(404, "Service not found", <<>>)
  ELSE SlotsAnswer(200, "", AvailableSlots(bks, ParseDate(date)))

\* a handler that confirms the pending bookings of the date as it reads them
GetAvailableSlotsConfirming(q) ==
  /\ res' = AvailabilityOutcome(bookings, services, q.date, q.serviceId)
  /\ bookings' = [i \in 1..Len(bookings) |->
       IF /\ bookings[i].appointmentDate = ParseDate(q.date)
          /\ bookings[i].status = "pending"
       THEN [bookings[i] EXCEPT !.status = "confirmed"]
       ELSE bookings[i]]
  /\ UNCHANGED <<services, now, inflight, mail>>

GetAvailableSlots(q) ==
  /\ res' = AvailabilityOutcome(bookings, services, q.date, q.serviceId)
  /\ UNCHANGED <<bookings, services, now, inflight, mail>>

\* ------------------------------------------------------ GET /api/bookings
\* the code units of the characters a stored time is made of
CharCode(c) ==
  IF c = ":" THEN 58 ELSE 48 + (CHOOSE n \in 0..9 : Digits[n + 1] = c)

\* the order of two strings in a sort: code unit by code unit, a proper
\* prefix first
RECURSIVE StringBefore(_, _)
StringBefore(a, b) ==
  IF a = <<>> THEN b # <<>>
  ELSE IF b = <<>> THEN FALSE
  ELSE IF Head(a) = Head(b) THEN StringBefore(Tail(a), Tail(b))
  ELSE CharCode(Head(a)) < CharCode(Head(b))

\* .sort({ appointmentDate: 1, appointmentTime: 1 })
SortBefore(a, b) ==
  \/ a.appointmentDate < b.appointmentDate
  \/ /\ a.appointmentDate = b.appointmentDate
     /\ StringBefore(a.appointmentTime, b.appointmentTime)

\* the results the sort can give: the documents in ascending order of the
\* sort key; the key is not unique, and documents it does not tell apart
\* come in an order the store leaves open, chosen anew by every query
SortOrders(docs) ==
  { s \in [1..Len(docs) -> { docs[k] : k \in 1..Len(docs) }] :
      /\ \A i \in 1..Len(docs) : \E k \in 1..Len(docs) : s[k] = docs[i]
      /\ \A i \in 1..Len(docs), j \in 1..Len(docs) :
           i < j => ~SortBefore(s[j], s[i]) }

\* filter.status and filter.appointmentDate = { $gte: startDate, $lt: endDate }
MatchesFilter(b, q) ==
  /\ q.status = "" \/ b.status = q.status
  /\ \/ q.date = Null
     \/ /\ b.appointmentDate >= ParseDate(q.date)
        /\ b.appointmentDate < ParseDate(q.date) + TicksPerDay

\* .limit(limit * 1).skip((page - 1) * limit): the skip is applied first
PageOf(docs, page, limit) ==
  LET first == (page - 1) * limit + 1
      last == IF page * limit < Len(docs) THEN page * limit ELSE Len(docs)
  IN SubSeq(docs, first, last)

\* res.json({ bookings, totalPages, currentPage, total })
ListOutcome(found, sorted, q) ==
  [code |-> 200, error |-> "",
   bookings |-> PageOf(sorted, q.page, q.limit),
   totalPages |-> (Len(found) + q.limit - 1) \div q.limit,
   currentPage |-> q.page,
   total |-> Len(found)]

\* the answers one request can get: Booking.find(filter).sort(...) in one of
\* the orders of the sort, Booking.countDocuments(filter) for the total
ListOutcomes(bks, q) ==
  LET found == SelectSeq(bks, LAMBDA b : MatchesFilter(b, q)) IN
  { ListOutcome(found, sorted, q) : sorted \in SortOrders(found) }

List(q) ==
  /\ res' \in ListOutcomes(bookings, q)
  /\ UNCHANGED <<bookings, services, now, inflight, mail>>

\* ------------------------------------------------------ /api/services
\* a collection without the unique index on name
NameTakenNoIndex(svcs, id, name) == FALSE

\* PUT /:id: Service.findByIdAndUpdate(id, req.body); the unique index on
\* name rejects a name another service holds
NameTaken(svcs, id, name) ==
  \E j \in 1..Len(svcs) : j # id /\ svcs[j] # Deleted /\ svcs[j].name = name

ServiceUpdate(id, body) ==
  /\ IF FindService(services, id) = Null
     THEN /\ res' = Fail(404, "Service not found")
          /\ UNCHANGED services
     ELSE IF NameTaken(services, id, body.name)
     THEN /\ res' = Fail(400, "Service name already exists")
          /\ UNCHANGED services
     ELSE /\ services' = [services EXCEPT ![id] =
                 [f \in DOMAIN services[id] |->
                    IF f \in DOMAIN body THEN body[f] ELSE services[id][f]]]
          /\ res' = Ok(200, Null)
  /\ UNCHANGED <<bookings, now, inflight, mail>>

\* POST /: new Service(req.body).save(); popular and available by default
ServiceCreate(body) ==
  /\ Len(services) < MaxServices
  /\ IF NameTaken(services, 0, body.name)
     THEN /\ res' = Fail(400, "Service name already exists")
          /\ UNCHANGED services
     ELSE /\ services' = Append(services,
                 [f \in DOMAIN body \cup {"popular", "available"} |->
                    IF f = "popular" THEN FALSE
                    ELSE IF f = "available" THEN TRUE ELSE body[f]])
          /\ res' = Ok(201, Null)
  /\ UNCHANGED <<bookings, now, inflight, mail>>

\* a delete that cancels the bookings of the service it removes
ServiceDeleteCascade(id) ==
  /\ IF FindService(services, id) = Null
     THEN /\ res' = Fail(404, "Service not found")
          /\ UNCHANGED <<services, bookings>>
     ELSE /\ services' = [services EXCEPT ![id] = Deleted]
          /\ bookings' = [i \in 1..Len(bookings) |->
               IF bookings[i].service = id
               THEN [bookings[i] EXCEPT !.status = "cancelled"]
               ELSE bookings[i]]
          /\ res' = Ok(200, Null)
  /\ UNCHANGED <<now, inflight, mail>>

\* DELETE /:id
ServiceDelete(id) ==
  /\ IF FindService(services, id) = Null
     THEN /\ res' = Fail(404, "Service not found")
          /\ UNCHANGED services
     ELSE /\ services' = [services EXCEPT ![id] = Deleted]
          /\ res' = Ok(200, Null)
  /\ UNCHANGED <<bookings, now, inflight, mail>>

\* PATCH /:id/toggle-availability
ToggleAvailability(id) ==
  /\ IF FindService(services, id) = Null
     THEN /\ res' = Fail(404, "Service not found")
          /\ UNCHANGED services
     ELSE /\ services' = [services EXCEPT ![id].available = ~services[id].available]
          /\ res' = Ok(200, Null)
  /\ UNCHANGED <<bookings, now, inflight, mail>>

\* PATCH /:id/toggle-popularity
TogglePopularity(id) ==
  /\ IF FindService(services, id) = Null
     THEN /\ res' = Fail(404, "Service not found")
          /\ UNCHANGED services
     ELSE /\ services' = [services EXCEPT ![id].popular = ~services[id].popular]
          /\ res' = Ok(200, Null)
  /\ UNCHANGED <<bookings, now, inflight, mail>>

\* ------------------------------------------------------------- the clock
StartOfClock == ParseDate(Monday) - 1

Tick ==
  /\ now < StartOfClock + MaxTicks
  /\ now' = now + 1
  /\ UNCHANGED <<bookings, services, res, inflight, mail>>

\* ------------------------------------------------- the specification
Idle == [pc |-> "idle"]

Init ==
  /\ bookings = <<>>
  /\ services = << [f \in DOMAIN Haircut \cup {"popular", "available"} |->
                      IF f = "popular" THEN FALSE
                      ELSE IF f = "available" THEN TRUE ELSE Haircut[f]] >>
  /\ now = StartOfClock
  /\ res = NoResponse
  /\ inflight = [p \in Procs |-> Idle]
  /\ mail = [up |-> TRUE, sent |-> {}]

\* requests served one at a time: the booking routes and the clock
Next ==
  \/ \E body \in Bodies : Create(body)
  \/ \E id \in BookingIdInputs, status \in StatusInputs : UpdateStatus(id, status)
  \/ \E id \in BookingIdInputs : Cancel(id)
  \/ Tick

Spec == Init /\ [][Next]_vars

\* requests served one at a time: the booking routes for one slot, with the
\* service routes changing the catalogue under them
NextCatalog ==
  \/ \E body \in CatalogBodies : Create(body)
  \/ \E id \in BookingIdInputs, status \in ValidStatuses : UpdateStatus(id, status)
  \/ \E id \in BookingIdInputs : Cancel(id)
  \/ \E id \in ServiceIdInputs, body \in ServiceBodies : ServiceUpdate(id, body)
  \/ \E id \in ServiceIdInputs : ServiceDelete(id)
  \/ \E id \in ServiceIdInputs : ToggleAvailability(id)
  \/ \E id \in ServiceIdInputs : TogglePopularity(id)
  \/ Tick

SpecCatalog == Init /\ [][NextCatalog]_vars

\* requests served one at a time: the booking routes with the two read
\* routes, availability and the list
NextQuery ==
  \/ \E body \in QueryBodies : Create(body)
  \/ \E id \in BookingIdInputs, status \in ValidStatuses : UpdateStatus(id, status)
  \/ \E q \in SlotQueries : GetAvailableSlots(q)
  \/ \E q \in ListQueries : List(q)

SpecQuery == Init /\ [][NextQuery]_vars

\* requests served one at a time: Create and Cancel for two days of one
\* week, with the availability and the list of each day
NextDay ==
  \/ \E body \in DayBodies : Create(body)
  \/ \E id \in BookingIdInputs : Cancel(id)
  \/ \E q \in DaySlotQueries : GetAvailableSlots(q)
  \/ \E q \in DayListQueries \cup PageListQueries : List(q)

SpecDay == Init /\ [][NextDay]_vars

\* requests served one at a time as the clock runs: Create with bare dates
\* and two-digit hours, and Cancel
NextStrict ==
  \/ \E body \in StrictBodies : Create(body)
  \/ \E id \in BookingIdInputs : Cancel(id)
  \/ Tick

SpecStrict == Init /\ [][NextStrict]_vars

\* the ids of the service routes' requests: every service there can be
ServiceIds == 1..MaxServices

\* requests served one at a time: the service routes that write
NextServices ==
  \/ \E body \in ServiceBodies : ServiceCreate(body)
  \/ \E id \in ServiceIds, body \in ServiceBodies : ServiceUpdate(id, body)
  \/ \E id \in ServiceIds : ServiceDelete(id)
  \/ \E id \in ServiceIds : ToggleAvailability(id)
  \/ \E id \in ServiceIds : TogglePopularity(id)

SpecServices == Init /\ [][NextServices]_vars

\* the mail transport goes down or comes back
MailFlip ==
  /\ mail' = [mail EXCEPT !.up = ~mail.up]
  /\ UNCHANGED <<bookings, services, now, res, inflight>>

\* requests served one at a time, with a mail transport that comes and goes
NextNotify ==
  \/ \E body \in Bodies : Create(body)
  \/ \E id \in BookingIdInputs : Cancel(id)
  \/ MailFlip

SpecNotify == Init /\ [][NextNotify]_vars

\* ---------------------------------- POST /api/bookings, await by await
\* Overlapping requests: each handler runs to its next await, where another
\* request's step may come in between.
Respond(p, r) ==
  /\ res' = r
  /\ inflight' = [inflight EXCEPT ![p] = Idle]

\* validation, then Service.findById
CreateBegin(p, body) ==
  /\ inflight[p].pc = "idle"
  /\ IF ~ValidateBooking(body, now)
     THEN Respond(p, Invalid(ValidationDetails(body, now)))
     ELSE LET service == FindService(services, body.service) IN
       IF service = Null
       THEN Respond(p, Fail(404, "Service not found"))
       ELSE /\ inflight' = [inflight EXCEPT ![p] =
                   [pc |-> "resolved", body |-> body, service |-> service]]
            /\ UNCHANGED res
  /\ UNCHANGED <<bookings, services, now, mail>>

\* Booking.findOne: the conflict check
CreateCheck(p) ==
  /\ inflight[p].pc = "resolved"
  /\ IF FindConflict(bookings, ParseDate(inflight[p].body.appointmentDate),
                     Trim(inflight[p].body.appointmentTime))
     THEN Respond(p, Fail(409, "This time slot is already booked"))
     ELSE /\ inflight' = [inflight EXCEPT ![p].pc = "checked"]
          /\ UNCHANGED res
  /\ UNCHANGED <<bookings, services, now, mail>>

\* booking.save(), the confirmation mail and the response
CreateSave(p) ==
  /\ inflight[p].pc = "checked"
  /\ LET out == SaveNew(bookings,
                        NewBooking(Len(bookings) + 1, inflight[p].body,
                                   inflight[p].service), now) IN
       /\ Len(out.bookings) <= MaxBookings
       /\ bookings' = out.bookings
       /\ Respond(p, AfterSave(out.res, mail))
       /\ mail' = MailAfter(mail, out.res)
  /\ UNCHANGED <<services, now>>

\* ------------------------- PATCH /api/bookings/:id/cancel, await by await
\* Booking.findById and the checks of the status that was loaded
CancelLoad(p, id) ==
  /\ inflight[p].pc = "idle"
  /\ LET booking == FindBooking(bookings, id) IN
       IF booking = Null
       THEN Respond(p, Fail(404, "Booking not found"))
       ELSE IF booking.status = "cancelled"
       THEN Respond(p, Fail(400, "Booking is already cancelled"))
       ELSE IF booking.status = "completed"
       THEN Respond(p, Fail(400, "Cannot cancel completed booking"))
       ELSE /\ inflight' = [inflight EXCEPT ![p] =
                   [pc |-> "loaded", doc |-> booking]]
            /\ UNCHANGED res
  /\ UNCHANGED <<bookings, services, now, mail>>

\* booking.status = 'cancelled'; await booking.save(); the response
CancelSave(p) ==
  /\ inflight[p].pc = "loaded"
  /\ LET out == SaveLoaded(bookings,
                           [inflight[p].doc EXCEPT !.status = "cancelled"],
                           now) IN
       /\ bookings' = out.bookings
       /\ Respond(p, out.res)
  /\ UNCHANGED <<services, now, mail>>

\* two times of one Monday
CancelRaceBodies ==
  { Body(GoodName, 1, Monday, T0900, ""),
    Body(GoodName, 1, Monday, T1000, "") }

\* overlapping Cancel requests, with bookings made and confirmed or
\* completed between their steps
NextCancelRace ==
  \/ \E body \in CancelRaceBodies : Create(body)
  \/ \E id \in BookingIdInputs, status \in {"confirmed", "completed"} :
       UpdateStatus(id, status)
  \/ \E p \in Procs, id \in BookingIdInputs : CancelLoad(p, id)
  \/ \E p \in Procs : CancelSave(p)

SpecCancelRace == Init /\ [][NextCancelRace]_vars

NextRace ==
  \/ \E p \in Procs, body \in RaceBodies : CreateBegin(p, body)
  \/ \E p \in Procs : CreateCheck(p)
  \/ \E p \in Procs : CreateSave(p)
  \/ Tick

SpecRace == Init /\ [][NextRace]_vars

\* ------------------------------- every booking route, await by await
\* A request from its first statement to its response. The handler runs to
\* its next await; the awaited call returns (ok) or throws, and the handler
\* goes on from there, into its catch block when the call threw. answers
\* counts the responses the handler has sent, held is the document the
\* handler keeps in a local, and pc names the call it awaits.
LiveBodies ==
  { Body(GoodName, 1, Monday, T0900, ""),
    Body(ShortName, 1, Monday, T0900, ""),
    Body(GoodName, 2, Monday, T0900, "") }

Requests ==
  { [op |-> "Create", body |-> body] : body \in LiveBodies }
  \cup { [op |-> "UpdateStatus", id |-> 1, status |-> status] :
           status \in {"completed", "archived"} }
  \cup { [op |-> "Cancel", id |-> id] : id \in {1, MaxBookings + 1} }
  \cup { [op |-> "List", q |-> ListQuery("", Null, DefaultPage, DefaultLimit)] }
  \cup { [op |-> "Availability", q |-> q] :
           q \in { [date |-> Monday, serviceId |-> 1],
                   [date |-> NextSunday, serviceId |-> 1],
                   [date |-> Monday, serviceId |-> NoServiceId] } }

\* the handler as it is entered
Entered(req) == [pc |-> "idle", req |-> req, held |-> Null, answers |-> 0]

\* the handler f of request p reaches the await of a call
Goto(p, f, call) ==
  /\ inflight' = [inflight EXCEPT ![p] = [f EXCEPT !.pc = call]]
  /\ UNCHANGED res

\* return res.status(code).json(...), or the same as the last statement of
\* the try block or of the catch block
Reply(p, f, r) ==
  /\ inflight' = [inflight EXCEPT ![p] =
                    [f EXCEPT !.pc = "done", !.answers = @ + 1]]
  /\ res' = r

\* catch (error) { res.status(500).json({ error }) } of each handler
CatchMessage(op) ==
  CASE op = "Create" -> "Failed to create booking"
    [] op = "UpdateStatus" -> "Failed to update booking status"
    [] op = "Cancel" -> "Failed to cancel booking"
    [] op = "List" -> "Failed to fetch bookings"
    [] op = "Availability" -> "Failed to fetch available slots"

Catch(p) ==
  Reply(p, inflight[p],
        IF inflight[p].req.op = "Availability"
        THEN SlotsAnswer(500, CatchMessage("Availability"), <<>>)
        ELSE Fail(500, CatchMessage(inflight[p].req.op)))

Awaits(p, op, call) ==
  /\ inflight[p].pc = call
  /\ inflight[p].req.op = op

\* the synchronous statements of a handler, up to its first await; the
\* requests come one after the other
Begin(p, req) ==
  /\ \A q \in Procs : inflight[q].pc = "idle"
  /\ req.op = "Create" => Len(bookings) < MaxBookings
  /\ CASE req.op = "Create" ->
            IF ~ValidateBooking(req.body, now)
            THEN Reply(p, Entered(req), Invalid(ValidationDetails(req.body, now)))
            ELSE Goto(p, Entered(req), "findService")
       [] req.op = "UpdateStatus" ->
            IF req.status \notin ValidStatuses
            THEN Reply(p, Entered(req), Fail(400, "Invalid status"))
            ELSE Goto(p, Entered(req), "findByIdAndUpdate")
       [] req.op = "Cancel" -> Goto(p, Entered(req), "findById")
       [] req.op = "List" -> Goto(p, Entered(req), "find")
       [] req.op = "Availability" ->
            IF req.q.serviceId = NoServiceId
            THEN Reply(p, Entered(req), SlotsAnswer(400, "Service ID is required", <<>>))
            ELSE Goto(p, Entered(req), "findService")
  /\ UNCHANGED <<bookings, services, now, mail>>

\* await Service.findById(serviceId), in Create
AwaitFindService(p, ok) ==
  /\ Awaits(p, "Create", "findService")
  /\ LET f == inflight[p]
         service == FindService(services, f.req.body.service)
     IN IF ~ok THEN Catch(p)
        ELSE IF service = Null
        THEN Reply(p, f, Fail(404, "Service not found"))
        ELSE Goto(p, [f EXCEPT !.held = service], "findOne")
  /\ UNCHANGED <<bookings, services, now, mail>>

\* await Booking.findOne({ appointmentDate, appointmentTime, status })
AwaitFindOne(p, ok) ==
  /\ Awaits(p, "Create", "findOne")
  /\ LET f == inflight[p] IN
     IF ~ok THEN Catch(p)
     ELSE IF FindConflict(bookings, ParseDate(f.req.body.appointmentDate),
                          Trim(f.req.body.appointmentTime))
     THEN Reply(p, f, Fail(409, "This time slot is already booked"))
     ELSE Goto(p, f, "save")
  /\ UNCHANGED <<bookings, services, now, mail>>

\* await booking.save() of the new booking
AwaitSave(p, ok) ==
  /\ Awaits(p, "Create", "save")
  /\ LET f == inflight[p]
         out == SaveNew(bookings,
                        NewBooking(Len(bookings) + 1, f.req.body, f.held), now)
     IN IF ok /\ out.res.code = 201
        THEN /\ bookings' = out.bookings
             /\ Goto(p, [f EXCEPT !.held = out.res.booking], "sendBookingConfirmation")
        ELSE /\ UNCHANGED bookings
             /\ Catch(p)
  /\ UNCHANGED <<services, now, mail>>

\* a handler whose inner catch ends the request
SendThrewEndsHandler(p) == Goto(p, inflight[p], "done")

\* catch (emailError) { console.error(...) }: the handler goes on
SendThrew(p) == Goto(p, inflight[p], "populate")

\* try { await sendBookingConfirmation(booking) } catch (emailError) { }
AwaitSendBookingConfirmation(p, ok) ==
  /\ Awaits(p, "Create", "sendBookingConfirmation")
  /\ IF ok
     THEN /\ mail' = [mail EXCEPT !.sent = @ \cup {inflight[p].held._id}]
          /\ Goto(p, inflight[p], "populate")
     ELSE /\ UNCHANGED mail
          /\ SendThrew(p)
  /\ UNCHANGED <<bookings, services, now>>

\* await booking.populate('service', ...), then res.status(201).json
AwaitPopulate(p, ok) ==
  /\ Awaits(p, "Create", "populate")
  /\ IF ok THEN Reply(p, inflight[p], Ok(201, inflight[p].held)) ELSE Catch(p)
  /\ UNCHANGED <<bookings, services, now, mail>>

\* await Booking.findByIdAndUpdate(...).populate(...)
AwaitFindByIdAndUpdate(p, ok) ==
  /\ Awaits(p, "UpdateStatus", "findByIdAndUpdate")
  /\ LET f == inflight[p]
         out == UpdateStatusOutcome(bookings, f.req.id, f.req.status)
     IN IF ok
        THEN bookings' = out.bookings /\ Reply(p, f, out.res)
        ELSE UNCHANGED bookings /\ Catch(p)
  /\ UNCHANGED <<services, now, mail>>

\* await Booking.findById(req.params.id), in Cancel
AwaitFindById(p, ok) ==
  /\ Awaits(p, "Cancel", "findById")
  /\ LET f == inflight[p]
         booking == FindBooking(bookings, f.req.id)
     IN IF ~ok THEN Catch(p)
        ELSE IF booking = Null
        THEN Reply(p, f, Fail(404, "Booking not found"))
        ELSE IF booking.status = "cancelled"
        THEN Reply(p, f, Fail(400, "Booking is already cancelled"))
        ELSE IF booking.status = "completed"
        THEN Reply(p, f, Fail(400, "Cannot cancel completed booking"))
        ELSE Goto(p, [f EXCEPT !.held = booking], "saveCancelled")
  /\ UNCHANGED <<bookings, services, now, mail>>

\* booking.status = 'cancelled'; await booking.save(); res.json
AwaitSaveCancelled(p, ok) ==
  /\ Awaits(p, "Cancel", "saveCancelled")
  /\ LET f == inflight[p]
         out == SaveLoaded(bookings, [f.held EXCEPT !.status = "cancelled"], now)
     IN IF ok /\ out.res.code = 200
        THEN bookings' = out.bookings /\ Reply(p, f, out.res)
        ELSE UNCHANGED bookings /\ Catch(p)
  /\ UNCHANGED <<services, now, mail>>

\* await Booking.find(filter)...sort(...).limit(...).skip(...).exec()
AwaitFind(p, ok) ==
  /\ Awaits(p, "List", "find")
  /\ IF ok
     THEN \E r \in ListOutcomes(bookings, inflight[p].req.q) :
            Goto(p, [inflight[p] EXCEPT !.held = r.bookings], "countDocuments")
     ELSE Catch(p)
  /\ UNCHANGED <<bookings, services, now, mail>>

\* await Booking.countDocuments(filter), then res.json
AwaitCountDocuments(p, ok) ==
  /\ Awaits(p, "List", "countDocuments")
  /\ IF ok
     THEN \E r \in ListOutcomes(bookings, inflight[p].req.q) :
            Reply(p, inflight[p], [r EXCEPT !.bookings = inflight[p].held])
     ELSE Catch(p)
  /\ UNCHANGED <<bookings, services, now, mail>>

\* await Service.findById(serviceId), in Availability, then the weekday
AwaitSlotsFindService(p, ok) ==
  /\ Awaits(p, "Availability", "findService")
  /\ LET f == inflight[p] IN
     IF ~ok THEN Catch(p)
     ELSE IF FindService(services, f.req.q.serviceId) = Null
     THEN Reply(p, f, SlotsAnswer(404, "Service not found", <<>>))
     ELSE IF DayOfWeek(ParseDate(f.req.q.date)) = 0
     THEN Reply(p, f, SlotsAnswer(200, "", <<>>))
     ELSE Goto(p, f, "find")
  /\ UNCHANGED <<bookings, services, now, mail>>

\* await Booking.find({ appointmentDate, status }), then the grid and res.json
AwaitSlotsFind(p, ok) ==
  /\ Awaits(p, "Availability", "find")
  /\ IF ok
     THEN Reply(p, inflight[p],
                SlotsAnswer(200, "", AvailableSlots(bookings,
                                       ParseDate(inflight[p].req.q.date))))
     ELSE Catch(p)
  /\ UNCHANGED <<bookings, services, now, mail>>

\* the handler has returned: the next request can come
Retire(p) ==
  /\ inflight[p].pc = "done"
  /\ inflight' = [inflight EXCEPT ![p] = Idle]
  /\ UNCHANGED <<bookings, services, now, res, mail>>

\* the awaited call of request p settles and its handler goes on
Settle(p) ==
  \E ok \in BOOLEAN :
    \/ AwaitFindService(p, ok)
    \/ AwaitFindOne(p, ok)
    \/ AwaitSave(p, ok)
    \/ AwaitSendBookingConfirmation(p, ok)
    \/ AwaitPopulate(p, ok)
    \/ AwaitFindByIdAndUpdate(p, ok)
    \/ AwaitFindById(p, ok)
    \/ AwaitSaveCancelled(p, ok)
    \/ AwaitFind(p, ok)
    \/ AwaitCountDocuments(p, ok)
    \/ AwaitSlotsFindService(p, ok)
    \/ AwaitSlotsFind(p, ok)

\* the requests of the five booking routes, each from await to await
NextLive ==
  \/ \E p \in Procs, req \in Requests : Begin(p, req)
  \/ \E p \in Procs : Settle(p)
  \/ \E p \in Procs : Retire(p)

\* every awaited call returns or throws, and the event loop then runs the
\* handler that awaits it
SpecLive ==
  Init /\ [][NextLive]_vars /\ \A p \in Procs : WF_vars(Settle(p))

\* ================================================================ claims
Active(b) == b.status \in ActiveStatuses
SameSlot(a, b) ==
  a.appointmentDate = b.appointmentDate /\ a.appointmentTime = b.appointmentTime
BookingIds == 1..Len(bookings)

\* C1: with requests served one at a time, no two bookings whose status is
\* pending or confirmed share one (appointmentDate, appointmentTime) slot.
C1_NoDoubleBooking ==
  \A i, j \in BookingIds :
    (i # j /\ Active(bookings[i]) /\ Active(bookings[j]))
      => ~SameSlot(bookings[i], bookings[j])

\* C2: a cancelled or completed booking never changes status again, and the
\* only status changes are pending->confirmed, confirmed->completed,
\* pending->cancelled and confirmed->cancelled.
LifecycleEdges ==
  { <<"pending", "confirmed">>, <<"confirmed", "completed">>,
    <<"pending", "cancelled">>, <<"confirmed", "cancelled">> }

C2_Lifecycle ==
  [][\A i \in BookingIds :
       /\ bookings[i].status \in {"cancelled", "completed"}
            => bookings'[i].status = bookings[i].status
       /\ bookings'[i].status # bookings[i].status
            => <<bookings[i].status, bookings'[i].status>> \in LifecycleEdges]_vars

\* C3: a Create with valid input and an existing service, for a (date, time)
\* that a pending or confirmed booking holds, answers 409 Conflict and
\* leaves the bookings as they were.
SlotHeld(body) ==
  \E i \in BookingIds :
    /\ bookings[i].status \in {"pending", "confirmed"}
    /\ bookings[i].appointmentDate = ParseDate(body.appointmentDate)
    /\ bookings[i].appointmentTime = Trim(body.appointmentTime)

WellFormed(body) ==
  /\ body.appointmentDate.iso
  /\ Len(Trim(body.clientName)) \in 2..100
  /\ ParseDate(body.appointmentDate) > now
  /\ MatchesTime(Trim(body.appointmentTime))

ServiceExists(id) == id \in 1..Len(services) /\ services[id] # Deleted

C3_ConflictRejected ==
  [][\A body \in Bodies :
       (WellFormed(body) /\ ServiceExists(body.service) /\ SlotHeld(body)
          /\ Create(body))
         => (res'.code = 409 /\ bookings' = bookings)]_vars

C3_Witness ==
  /\ res.code = 409
  /\ \E i \in BookingIds : bookings[i].status = "confirmed"

\* C4: every successful Create adds exactly one booking; it is pending, its
\* snapshot fields are the resolved service's name, price, duration and
\* category, and its totalAmount is that price, whatever status the caller
\* sent.
C4_CreatePersistsPendingSnapshot ==
  [][\A body \in CatalogBodies :
       (res'.code = 201 /\ Create(body))
         => /\ Len(bookings') = Len(bookings) + 1
            /\ SubSeq(bookings', 1, Len(bookings)) = bookings
            /\ LET b == bookings'[Len(bookings')]
                   svc == services[body.service]
               IN /\ b.status = "pending"
                  /\ b.serviceName = svc.name
                  /\ b.servicePrice = svc.price
                  /\ b.serviceDuration = svc.duration
                  /\ b.serviceCategory = svc.category
                  /\ b.totalAmount = svc.price]_vars

\* a booking made from a request that asked for another status, of a service
\* whose record had been edited
C4_Witness ==
  /\ res.code = 201
  /\ \E i \in BookingIds :
       /\ res.booking = bookings[i]
       /\ bookings[i].serviceName = "Facial"
       /\ bookings[i].status = "pending"

\* C5: a booking's totalAmount is the price snapshotted when it was created:
\* a new booking's servicePrice and totalAmount are its service's price at
\* that moment, and no operation changes either afterwards.
C5_TotalAmountIsSnapshot ==
  [][\A i \in 1..Len(bookings') :
       IF i <= Len(bookings)
       THEN /\ bookings'[i].totalAmount = bookings[i].totalAmount
            /\ bookings'[i].servicePrice = bookings[i].servicePrice
       ELSE /\ bookings'[i].servicePrice = services[bookings'[i].service].price
            /\ bookings'[i].totalAmount = bookings'[i].servicePrice]_vars

\* a booking cancelled after its service's price changed
C5_Witness ==
  \E i \in BookingIds :
    /\ bookings[i].status = "cancelled"
    /\ ServiceExists(bookings[i].service)
    /\ services[bookings[i].service].price # bookings[i].totalAmount
    /\ res.code = 200 /\ res.booking = bookings[i]

Range(seq) == { seq[k] : k \in 1..Len(seq) }

\* what GET available-slots answers for the calendar date of an instant
SlotsOfDay(instant) ==
  AvailableSlots(bookings, ParseDate(IsoDate(CalDay(instant), 0)))

\* C6: while a booking on calendar date D at time T is pending or confirmed,
\* Availability for D omits T; once it is cancelled and no other active
\* booking holds (D, T), Availability for D contains T.
C6_AvailabilityTracksBookings ==
  \A i \in BookingIds :
    LET b == bookings[i]
        slots == Range(SlotsOfDay(b.appointmentDate))
        othersHold ==
          \E j \in BookingIds :
            /\ Active(bookings[j])
            /\ CalDay(bookings[j].appointmentDate) = CalDay(b.appointmentDate)
            /\ bookings[j].appointmentTime = b.appointmentTime
    IN /\ Active(b) => b.appointmentTime \notin slots
       /\ (b.status = "cancelled" /\ ~othersHold) => b.appointmentTime \in slots

\* C7: Cancel of a cancelled or a completed booking answers 400 (already
\* cancelled / cannot cancel completed) and changes no booking; after any
\* Cancel of a booking, a second Cancel of it does not succeed.
InvalidStateErrors ==
  {"Booking is already cancelled", "Cannot cancel completed booking"}

C7_CancelTerminalRejected ==
  [][\A id \in BookingIds :
       Cancel(id) =>
         /\ bookings[id].status \in {"cancelled", "completed"}
              => /\ res'.code = 400
                 /\ res'.error \in InvalidStateErrors
                 /\ bookings' = bookings
         /\ \A t \in now'..(StartOfClock + MaxTicks) :
              CancelOutcome(bookings', id, t).res.code # 200]_vars

C7_Witness ==
  /\ res.code = 400
  /\ res.error = "Cannot cancel completed booking"
  /\ \E i \in BookingIds : bookings[i].status = "completed"

\* C8: Cancel of any pending or confirmed booking succeeds, stores status
\* cancelled and returns the updated booking, also when the appointmentDate
\* is no longer in the future.
C8_CancelActiveSucceeds ==
  [][\A id \in BookingIds :
       (Active(bookings[id]) /\ Cancel(id))
         => /\ res'.code = 200
            /\ bookings'[id].status = "cancelled"
            /\ res'.booking = bookings'[id]]_vars

\* C9: UpdateStatus(id, s) with s one of the four statuses succeeds on an
\* existing booking whatever its current status and whatever the other
\* bookings are, and leaves exactly that booking's status equal to s.
C9_UpdateStatusUnconditional ==
  [][\A id \in BookingIds, s \in ValidStatuses :
       UpdateStatus(id, s)
         => /\ res'.code = 200
            /\ bookings' = [bookings EXCEPT ![id].status = s]
            /\ res'.booking = bookings'[id]]_vars

\* a booking put back to pending on a slot another active booking took
\* after it had been cancelled or completed
C9_Witness ==
  /\ res.code = 200
  /\ res.booking # Null
  /\ res.booking.status = "pending"
  /\ \E i, j \in BookingIds :
       /\ i # j
       /\ res.booking = bookings[i]
       /\ Active(bookings[j])
       /\ SameSlot(bookings[i], bookings[j])

\* C10: the insert of a Create does not look at the slot again: a request
\* that has passed its conflict check inserts its booking whenever its date
\* is still in the future, so two overlapping requests for one slot both
\* insert.
C10_InsertAfterCheckAlwaysInserts ==
  [][\A p \in Procs :
       (/\ inflight[p].pc = "checked"
        /\ ParseDate(inflight[p].body.appointmentDate) > now
        /\ CreateSave(p))
         => /\ Len(bookings') = Len(bookings) + 1
            /\ res'.code = 201
            /\ bookings'[Len(bookings')].status = "pending"]_vars

\* two pending bookings on one slot
C10_Witness ==
  \E i, j \in BookingIds :
    /\ i # j
    /\ bookings[i].status = "pending" /\ bookings[j].status = "pending"
    /\ SameSlot(bookings[i], bookings[j])

\* C11: a Create whose appointmentDate is a date not strictly later than the
\* current instant answers 400 "Validation failed" for that field and
\* persists nothing; every booking a Create persists has an appointmentDate
\* strictly later than the instant of its creation.
C11_PastDateRejected ==
  [][/\ \A body \in StrictBodies :
          (/\ body.appointmentDate.iso
           /\ ParseDate(body.appointmentDate) <= now
           /\ Create(body))
            => /\ res'.code = 400
               /\ res'.error = "Validation failed"
               /\ \E e \in res'.details : e.path = "appointmentDate"
               /\ bookings' = bookings
     /\ Len(bookings') > Len(bookings)
          => bookings'[Len(bookings')].appointmentDate > now]_vars

\* a request dated at the very instant the server reads its clock was refused
C11_Witness ==
  /\ res.error = "Validation failed"
  /\ \E e \in res.details :
       /\ e.path = "appointmentDate"
       /\ e.value.iso
       /\ ParseDate(e.value) = now

\* C12: Create accepts an appointmentTime exactly when it is a two-digit
\* hour 00..23, a colon and a two-digit minute 00..59: a Create step answers
\* with a validation error for appointmentTime exactly when the time sent
\* is not of that form.
IsHHMM(s) ==
  /\ Len(s) = 5
  /\ \/ s[1] \in {"0", "1"} /\ IsDigit(s[2])
     \/ s[1] = "2" /\ s[2] \in {"0", "1", "2", "3"}
  /\ s[3] = ":"
  /\ s[4] \in {"0", "1", "2", "3", "4", "5"}
  /\ IsDigit(s[5])

TimeRejected(r) ==
  /\ r.error = "Validation failed"
  /\ \E e \in r.details : e.path = "appointmentTime"

C12_TimeIsTwoDigitHourAndMinute ==
  [][\A body \in Bodies :
       Create(body) =>
         (TimeRejected(res') <=> ~IsHHMM(body.appointmentTime))]_vars

\* C17: an UpdateStatus whose status is none of pending, confirmed,
\* completed, cancelled answers 400 and changes no booking; an UpdateStatus
\* with one of the four values, and a Cancel, for an id no booking has
\* answer 404 and change no booking.
C17_InvalidStatusAndUnknownId ==
  [][/\ \A id \in BookingIdInputs, status \in StatusInputs :
          /\ (/\ status \notin {"pending", "confirmed", "completed", "cancelled"}
              /\ UpdateStatus(id, status))
               => (res'.code = 400 /\ bookings' = bookings)
          /\ (/\ status \in {"pending", "confirmed", "completed", "cancelled"}
              /\ id \notin BookingIds
              /\ UpdateStatus(id, status))
               => (res'.code = 404 /\ bookings' = bookings)
     /\ \A id \in BookingIdInputs :
          (id \notin BookingIds /\ Cancel(id))
            => (res'.code = 404 /\ bookings' = bookings)]_vars

\* a request for an unknown id came in while bookings were there to be
\* changed
C17_Witness ==
  /\ bookings # <<>>
  /\ res.code = 404
  /\ res.error = "Booking not found"

\* C16: a service update, delete, toggle-availability or toggle-popularity
\* leaves every booking as it was (status, date, time, snapshot fields and
\* totalAmount), the bookings of the affected service included.
ServiceStep ==
  \/ \E id \in ServiceIdInputs, body \in ServiceBodies : ServiceUpdate(id, body)
  \/ \E id \in ServiceIdInputs : ServiceDelete(id)
  \/ \E id \in ServiceIdInputs : ToggleAvailability(id)
  \/ \E id \in ServiceIdInputs : TogglePopularity(id)

C16_ServiceStepsKeepBookings ==
  [][bookings' = bookings \/ ~ServiceStep]_vars

\* an active booking outlived the service it was made for
C16_Witness ==
  \E i \in BookingIds :
    /\ bookings[i].status \in {"pending", "confirmed"}
    /\ services[bookings[i].service] = Deleted
    /\ res = Ok(200, Null)

\* C13: for a date on Monday to Saturday on which no booking exists, and a
\* service that exists, Availability answers exactly the 18 times 09:00,
\* 09:30, ..., 17:30, each later in the day than the one before it.
HalfHours ==
  << <<"0", "9", ":", "0", "0">>,
     <<"0", "9", ":", "3", "0">>,
     <<"1", "0", ":", "0", "0">>,
     <<"1", "0", ":", "3", "0">>,
     <<"1", "1", ":", "0", "0">>,
     <<"1", "1", ":", "3", "0">>,
     <<"1", "2", ":", "0", "0">>,
     <<"1", "2", ":", "3", "0">>,
     <<"1", "3", ":", "0", "0">>,
     <<"1", "3", ":", "3", "0">>,
     <<"1", "4", ":", "0", "0">>,
     <<"1", "4", ":", "3", "0">>,
     <<"1", "5", ":", "0", "0">>,
     <<"1", "5", ":", "3", "0">>,
     <<"1", "6", ":", "0", "0">>,
     <<"1", "6", ":", "3", "0">>,
     <<"1", "7", ":", "0", "0">>,
     <<"1", "7", ":", "3", "0">> >>

\* minutes since midnight of a time h:mm or hh:mm
TimeOfDay(s) ==
  LET d(i) == CharCode(s[i]) - 48 IN
  IF Len(s) = 4 THEN 60 * d(1) + 10 * d(3) + d(4)
  ELSE 60 * (10 * d(1) + d(2)) + 10 * d(4) + d(5)

\* day 3 of the epoch, 1970-01-04, was a Sunday
IsSunday(date) == date.day % 7 = 3

NoBookingOn(date) ==
  \A i \in BookingIds : CalDay(bookings[i].appointmentDate) # date.day

C15_NotificationFailureIsSwallowed ==
  [][\A body \in Bodies :
       (/\ ~mail.up
        /\ WellFormed(body) /\ ServiceExists(body.service) /\ ~SlotHeld(body)
        /\ Create(body))
         => /\ res'.code = 201
            /\ Len(bookings') = Len(bookings) + 1
            /\ SubSeq(bookings', 1, Len(bookings)) = bookings
            /\ res'.booking = bookings'[Len(bookings')]
            /\ mail'.sent = mail.sent]_vars

\* the last Create answered 201 with a booking whose mail never went out
C15_Witness ==
  /\ res.code = 201
  /\ res.booking._id \in BookingIds
  /\ res.booking._id \notin mail.sent

\* C18: List answers exactly the bookings that match the status filter and
\* the calendar-date filter, when one page holds them all, ordered by
\* appointmentDate ascending and, within one date, by the time of day of
\* appointmentTime ascending.
Wanted(b, q) ==
  /\ q.status # "" => b.status = q.status
  /\ q.date # Null => CalDay(b.appointmentDate) = q.date.day

C18_ListFilteredAndOrdered ==
  [][\A q \in ListQueries :
       List(q) =>
         LET items == res'.bookings IN
         /\ \A k \in 1..Len(items) : Wanted(items[k], q)
         /\ (q.page = 1 /\ res'.total <= q.limit)
              => \A i \in BookingIds :
                   Wanted(bookings[i], q) => bookings[i] \in Range(items)
         /\ \A k \in 1..(Len(items) - 1) :
              /\ items[k].appointmentDate <= items[k + 1].appointmentDate
              /\ items[k].appointmentDate = items[k + 1].appointmentDate
                   => TimeOfDay(items[k].appointmentTime)
                        <= TimeOfDay(items[k + 1].appointmentTime)]_vars

\* C19: no Availability or List step, whatever its arguments or its answer,
\* changes a booking or a service, and an Availability call repeated with
\* the same arguments on the state the first call left gets the same answer.
ReadStep ==
  \/ \E q \in SlotQueries : GetAvailableSlots(q)
  \/ \E q \in ListQueries : List(q)

C19_ReadsChangeNothing ==
  [][/\ (bookings' = bookings /\ services' = services) \/ ~ReadStep
     /\ \A q \in SlotQueries :
          ("slots" \in DOMAIN res' /\ GetAvailableSlots(q))
            => AvailabilityOutcome(bookings', services', q.date, q.serviceId)
                 = res']_vars

\* an Availability call was answered with a grid that a pending booking has
\* taken a time from
C19_Witness ==
  /\ "slots" \in DOMAIN res
  /\ res.code = 200
  /\ Len(res.slots) = 17
  /\ \E i \in BookingIds : bookings[i].status = "pending"

\* C20: a Create with valid input for a service id that resolves to no
\* service answers 404 and persists nothing, also when the slot it asks for
\* is held; an Availability call for such a service id answers 404, also
\* when the date is a Sunday.
C20_UnknownServiceIsNotFound ==
  [][/\ \A body \in QueryBodies :
          (WellFormed(body) /\ ~ServiceExists(body.service) /\ Create(body))
            => (res'.code = 404 /\ bookings' = bookings)
     /\ \A q \in SlotQueries :
          (/\ q.serviceId # NoServiceId
           /\ ~ServiceExists(q.serviceId)
           /\ GetAvailableSlots(q))
            => res'.code = 404]_vars

\* a Create was answered "Service not found" while the Monday nine o'clock
\* slot, the one the request for the unknown service asks for, was held
C20_Witness ==
  /\ res = Fail(404, "Service not found")
  /\ \E i \in BookingIds :
       /\ bookings[i].status \in {"pending", "confirmed"}
       /\ bookings[i].appointmentDate = ParseDate(Monday)
       /\ bookings[i].appointmentTime = T0900

\* C21: cancelled and completed bookings do not block a slot: a Create with
\* valid input and an existing service succeeds when no booking at its
\* (date, time) is pending or confirmed, and it answers 409 only when one is.
C21_InactiveBookingsDoNotBlock ==
  [][\A body \in QueryBodies :
       /\ (/\ ~SlotHeld(body)
           /\ ServiceExists(body.service)
           /\ WellFormed(body)
           /\ Create(body))
            => /\ res'.code = 201
               /\ Len(bookings') = Len(bookings) + 1
               /\ bookings'[Len(bookings')].status = "pending"
       /\ (res'.code = 409 /\ Create(body)) => SlotHeld(body)]_vars

\* a booking was made for the slot of a cancelled and of a completed booking
C21_Witness ==
  /\ res.code = 201
  /\ \E i \in BookingIds, j \in BookingIds :
       /\ bookings[i].status \in {"cancelled", "completed"}
       /\ bookings[j] = res.booking
       /\ i < j
       /\ SameSlot(bookings[i], bookings[j])

\* C22: for a date D on Monday to Saturday, Availability answers exactly the
\* 18 grid times without the appointmentTime of every pending or confirmed
\* booking whose appointmentDate falls on calendar date D, in ascending
\* order; cancelled and completed bookings and bookings of other dates
\* remove nothing.
TimesHeldOn(date) ==
  { bookings[i].appointmentTime : i \in
      { j \in BookingIds :
          /\ bookings[j].status \in {"pending", "confirmed"}
          /\ CalDay(bookings[j].appointmentDate) = date.day } }

C22_AvailabilityIsGridMinusHeld ==
  [][\A q \in DaySlotQueries :
       (/\ ~IsSunday(q.date)
        /\ ServiceExists(q.serviceId)
        /\ GetAvailableSlots(q))
         => /\ res'.code = 200
            /\ res'.slots =
                 SelectSeq(HalfHours, LAMBDA t : t \notin TimesHeldOn(q.date))]_vars

\* C28: List's date filter and Availability agree on the bookings of a date:
\* for a date D on Monday to Saturday, the appointmentTime of every pending
\* or confirmed booking that List(date = D) returns is, when it is a grid
\* time, absent from what Availability answers for D.
C28_ListAndAvailabilityAgree ==
  [][\A q \in DayListQueries :
       (~IsSunday(q.date) /\ List(q))
         => \A k \in 1..Len(res'.bookings) :
              LET b == res'.bookings[k] IN
              (/\ b.status \in {"pending", "confirmed"}
               /\ b.appointmentTime \in Range(HalfHours))
                => b.appointmentTime \notin
                     Range(AvailabilityOutcome(bookings', services',
                                               q.date, b.service).slots)]_vars

\* C23: with Create and Cancel only, served one at a time, dates given as
\* bare calendar dates and times with a two-digit hour, no two pending or
\* confirmed bookings are on the same calendar date at the same time of day.
C23_CreateCancelNeverDoubleBook ==
  \A i \in BookingIds, j \in BookingIds :
    (/\ i # j
     /\ bookings[i].status \in {"pending", "confirmed"}
     /\ bookings[j].status \in {"pending", "confirmed"}
     /\ CalDay(bookings[i].appointmentDate) = CalDay(bookings[j].appointmentDate))
      => TimeOfDay(bookings[i].appointmentTime)
           # TimeOfDay(bookings[j].appointmentTime)

\* a Create for a held slot was refused after the slot's first booking had
\* been cancelled and the slot booked again
C23_Witness ==
  /\ res.code = 409
  /\ \E i \in BookingIds, j \in BookingIds :
       /\ bookings[i].status = "cancelled"
       /\ bookings[j].status = "pending"
       /\ SameSlot(bookings[i], bookings[j])

\* C24: every booking Create has persisted is on the operating grid: its
\* date is not a Sunday and its appointmentTime is one of the 18 times
\* 09:00, 09:30, ..., 17:30.
C24_BookingsAreOnTheGrid ==
  \A i \in BookingIds :
    /\ CalDay(bookings[i].appointmentDate) % 7 # 3
    /\ bookings[i].appointmentTime \in Range(HalfHours)

\* C25: with Cancel and UpdateStatus(id, completed) overlapping on one
\* booking, no Cancel writes cancelled over a stored status that is
\* already completed.
C25_CancelNeverOverwritesCompleted ==
  [][\A p \in Procs :
       (inflight[p].pc = "loaded" /\ CancelSave(p))
         => ~(/\ bookings[inflight[p].doc._id].status = "completed"
              /\ bookings'[inflight[p].doc._id].status = "cancelled")]_vars

\* C26: of two overlapping Cancel requests for one pending or confirmed
\* booking at most one reports success: no Cancel answers 200 for a booking
\* that another Cancel has already cancelled.
C26_OneCancelSucceeds ==
  [][\A p \in Procs :
       (inflight[p].pc = "loaded" /\ CancelSave(p) /\ res'.code = 200)
         => bookings[inflight[p].doc._id].status # "cancelled"]_vars

\* C27: an UpdateStatus or a Cancel changes nothing but the status of the
\* booking it addresses: that booking's other fields and every other booking
\* are as they were; and after every step each booking's status is one of
\* pending, confirmed, completed, cancelled.
OnlyStatusOf(id) ==
  /\ Len(bookings') = Len(bookings)
  /\ \A i \in BookingIds :
       bookings'[i] = IF i = id
                      THEN [bookings[i] EXCEPT !.status = bookings'[i].status]
                      ELSE bookings[i]

C27_StatusStepsKeepTheRest ==
  [][/\ \/ bookings' = bookings
        \/ \A id \in BookingIdInputs :
             \/ OnlyStatusOf(id)
             \/ ~(\/ \E status \in StatusInputs : UpdateStatus(id, status)
                  \/ Cancel(id))
     /\ \A i \in 1..Len(bookings') :
          bookings'[i].status
            \in {"pending", "confirmed", "completed", "cancelled"}]_vars

\* the second of two bookings was completed
C27_Witness ==
  /\ Len(bookings) = 2
  /\ res.code = 200
  /\ res.booking = bookings[2]
  /\ bookings[2].status = "completed"
  /\ bookings[1].status = "pending"

\* C29: Create and Availability resolve the service by its id alone: in
\* every state what each of them answers and persists for a request is the
\* same with the services' available flags set and with them cleared.
WithAvailable(svcs, flag) ==
  [i \in 1..Len(svcs) |->
     IF svcs[i] = Deleted THEN Deleted ELSE [svcs[i] EXCEPT !.available = flag]]

C29_AvailableFlagIsNotRead ==
  /\ \A body \in CatalogBodies :
       CreateOutcome(bookings, WithAvailable(services, TRUE), now, body)
         = CreateOutcome(bookings, WithAvailable(services, FALSE), now, body)
  /\ \A q \in SlotQueries :
       AvailabilityOutcome(bookings, WithAvailable(services, TRUE),
                           q.date, q.serviceId)
         = AvailabilityOutcome(bookings, WithAvailable(services, FALSE),
                               q.date, q.serviceId)

\* a Create was answered 201 for a service that is disabled
C29_Witness ==
  /\ res.code = 201
  /\ res.booking = bookings[Len(bookings)]
  /\ services[res.booking.service] # Deleted
  /\ ~services[res.booking.service].available

\* C30: service names stay unique: after every service step no two services
\* have the same name, and a create or an update that would give a service
\* the name of another answers 400 and leaves the catalogue as it was.
NameHeld(name, except) ==
  \E j \in 1..Len(services) :
    j # except /\ services[j] # Deleted /\ services[j].name = name

C30_ServiceNamesStayUnique ==
  [][/\ \A i \in 1..Len(services'), j \in 1..Len(services') :
          (i # j /\ services'[i] # Deleted /\ services'[j] # Deleted)
            => services'[i].name # services'[j].name
     /\ \A body \in ServiceBodies :
          (NameHeld(body.name, 0) /\ ServiceCreate(body))
            => (res'.code = 400 /\ services' = services)
     /\ \A id \in ServiceIds, body \in ServiceBodies :
          (ServiceExists(id) /\ NameHeld(body.name, id) /\ ServiceUpdate(id, body))
            => (res'.code = 400 /\ services' = services)]_vars

\* a request for a name that another service holds was refused
C30_Witness ==
  /\ res = Fail(400, "Service name already exists")
  /\ \E i \in 1..Len(services), j \in 1..Len(services) :
       /\ i # j
       /\ services[i] # Deleted
       /\ services[j] # Deleted

\* C31: for the bookings as they are persisted, a filter and a page size
\* limit >= 1, whatever List answers to the requests for the pages
\* 1..totalPages: every answer reports the number of matching bookings as
\* total and ceil(total / limit) as totalPages, every page holds at most
\* limit bookings, and every matching booking is on exactly one place of
\* exactly one page.
CeilDiv(total, limit) ==
  CHOOSE n \in 0..total :
    n * limit >= total /\ (n = 0 \/ (n - 1) * limit < total)

PagesOf(q) ==
  LET matching == { i \in BookingIds : MatchesFilter(bookings[i], q) }
      pages == 1..CeilDiv(Cardinality(matching), q.limit)
      AnswersOf(page) ==
        ListOutcomes(bookings, ListQuery(q.status, q.date, page, q.limit))
  IN { answers \in [pages -> UNION { AnswersOf(page) : page \in pages }] :
         \A page \in pages : answers[page] \in AnswersOf(page) }

C31_PagesHoldEveryMatchOnce ==
  \A q \in PageListQueries :
    LET matching == { i \in BookingIds : MatchesFilter(bookings[i], q) }
        total == Cardinality(matching)
    IN /\ \A r \in ListOutcomes(bookings, q) :
            r.total = total /\ r.totalPages = CeilDiv(total, q.limit)
       /\ \A answers \in PagesOf(q) :
            /\ \A page \in DOMAIN answers :
                 Len(answers[page].bookings) <= q.limit
            /\ \A i \in matching :
                 Cardinality({ place \in (DOMAIN answers) \X (1..q.limit) :
                                 /\ place[2] <= Len(answers[place[1]].bookings)
                                 /\ answers[place[1]].bookings[place[2]]._id = i }) = 1

\* C32: every request of Create, UpdateStatus, Cancel, List and Availability
\* that was started is answered, whether its store and notification calls
\* return or throw: a handler that has not returned has sent no response, a
\* handler that has returned has sent exactly one, with a success or an
\* error status, and every handler that was entered does return.
Running(p) == inflight[p].pc \notin {"idle", "done"}

AnsweredOnce ==
  \A p \in Procs :
    /\ Running(p) => inflight[p].answers = 0
    /\ inflight[p].pc = "done"
         => /\ inflight[p].answers = 1
            /\ res.code \in {200, 201, 400, 404, 409, 500}

C32_EveryRequestIsAnsweredOnce ==
  /\ []AnsweredOnce
  /\ \A p \in Procs : Running(p) ~> (inflight[p].pc = "done")

\* a Create whose confirmation mail threw was answered 201, once
C32_Witness ==
  \E p \in Procs :
    /\ inflight[p].pc = "done"
    /\ inflight[p].req.op = "Create"
    /\ inflight[p].answers = 1
    /\ res.code = 201
    /\ res.booking._id \notin mail.sent
====
